---- MODULE Spec2Model ----
(***************************************************************************)
(* Box-tree construction of kosmonaut (src/layout/mod.rs) and the event    *)
(* loop that re-lays-out clones of the built tree (src/main.rs).           *)
(*                                                                         *)
(* The styled DOM is a tree of MaxNodes nodes numbered in document order   *)
(* (node 1 is the root handed to build_layout_tree).  The recursion of     *)
(* build_layout_tree is modelled with an explicit call stack: one frame    *)
(* per active invocation, holding its node, its layout_box and the index   *)
(* of the child the `for` loop is at.                                      *)
(***************************************************************************)
EXTENDS Integers, Sequences, FiniteSets, TLC

MaxNodes == 5
MaxWidth == 1
MaxScale == 2

Nodes == 1..MaxNodes
Root == 1
Widths == 1..MaxWidth
Scales == 1..MaxScale

\* Display::{Block, Inline, None}; "Unset" is computed_values() == None,
\* a node the style pass has not reached.
Display == {"Block", "Inline", "None"}
ComputedValues == Display \cup {"Unset"}

VARIABLES parent, computed, pc, stack, result,
          clean_layout_tree, layout_tree, scale, inner_width, control_flow

vars == <<parent, computed, pc, stack, result,
          clean_layout_tree, layout_tree, scale, inner_width, control_flow>>

dom == <<parent, computed>>
loop == <<clean_layout_tree, layout_tree, scale, inner_width, control_flow>>

----------------------------------------------------------------------------
\* The styled node source.

RECURSIVE Ancestors(_, _)
Ancestors(p, n) == IF p[n] = 0 THEN {} ELSE {p[n]} \cup Ancestors(p, p[n])

\* Node ids are document (pre-)order: node 1 is the root and every later
\* node hangs off the previous node or one of the previous node's ancestors.
TreeShapes ==
    {p \in [Nodes -> 0..(MaxNodes - 1)] :
        /\ p[Root] = 0
        /\ \A n \in Nodes \ {Root} : p[n] >= 1 /\ p[n] < n
        /\ \A n \in Nodes \ {Root} : p[n] = n - 1 \/ p[n] \in Ancestors(p, n - 1)}

RECURSIVE ChildrenFrom(_, _)
ChildrenFrom(n, k) ==
    IF k > MaxNodes THEN <<>>
    ELSE IF parent[k] = n THEN <<k>> \o ChildrenFrom(n, k + 1)
    ELSE ChildrenFrom(n, k + 1)

\* node.children(): the child handles in document order.
Children(n) == ChildrenFrom(n, 1)

----------------------------------------------------------------------------
\* The box model.

ZeroRect == [x |-> 0, y |-> 0, width |-> 0, height |-> 0]
ZeroEdges == [left |-> 0, right |-> 0, top |-> 0, bottom |-> 0]

\* Dimensions::default()
DefaultDimensions ==
    [content |-> ZeroRect, padding |-> ZeroEdges, border |-> ZeroEdges, margin |-> ZeroEdges]

\* LayoutBox::new; node is 0 for BoxType::Anonymous, which carries no NodeRef.
New(box_type, node) ==
    [box_type |-> box_type, node |-> node,
     dimensions |-> DefaultDimensions, children |-> <<>>]

\* self.children.push(child)
Push(self, child) == [self EXCEPT !.children = Append(@, child)]

\* Faults of get_inline_container, used to test the properties below.
\* A new Anonymous box for every inline-level child.
GetInlineContainer_AlwaysNew(self) ==
    IF self.box_type \in {"Inline", "Anonymous"}
    THEN [self |-> self, container |-> "self"]
    ELSE [self |-> Push(self, New("Anonymous", 0)), container |-> "last"]

\* Only an Anonymous box is its own container.
GetInlineContainer_InlineWrapped(self) ==
    IF self.box_type = "Anonymous"
    THEN [self |-> self, container |-> "self"]
    ELSE LET n == Len(self.children) IN
         IF n > 0 /\ self.children[n].box_type = "Anonymous"
         THEN [self |-> self, container |-> "last"]
         ELSE [self |-> Push(self, New("Anonymous", 0)), container |-> "last"]

\* The Anonymous box is found or created, but self is handed back.
GetInlineContainer_ReturnsSelf(self) ==
    IF self.box_type \in {"Inline", "Anonymous"}
    THEN [self |-> self, container |-> "self"]
    ELSE LET n == Len(self.children) IN
         IF n > 0 /\ self.children[n].box_type = "Anonymous"
         THEN [self |-> self, container |-> "self"]
         ELSE [self |-> Push(self, New("Anonymous", 0)), container |-> "self"]

\* children.first() is tested instead of children.last().
GetInlineContainer_ChecksFirst(self) ==
    IF self.box_type \in {"Inline", "Anonymous"}
    THEN [self |-> self, container |-> "self"]
    ELSE IF Len(self.children) > 0 /\ self.children[1].box_type = "Anonymous"
         THEN [self |-> self, container |-> "last"]
         ELSE [self |-> Push(self, New("Anonymous", 0)), container |-> "last"]

\* The outcome of get_inline_container: self after the call, and whether the
\* returned &mut LayoutBox is self or self.children.last_mut().
GetInlineContainer(self) ==
    IF self.box_type \in {"Inline", "Anonymous"}
    THEN [self |-> self, container |-> "self"]
    ELSE LET n == Len(self.children) IN
         IF n > 0 /\ self.children[n].box_type = "Anonymous"
         THEN [self |-> self, container |-> "last"]
         ELSE [self |-> Push(self, New("Anonymous", 0)), container |-> "last"]

\* Fault: a block-level child of an Inline box is wrapped.
PushBlockChild_Wrapped(self, child_box) ==
    IF self.box_type = "Inline"
    THEN Push(self, Push(New("Anonymous", 0), child_box))
    ELSE Push(self, child_box)

\* layout_box.children.push(child_box)   (the Display::Block arm)
PushBlockChild(self, child_box) == Push(self, child_box)

\* Fault: the inline-level child is pushed without get_inline_container.
PushInlineChild_Direct(self, child_box) == Push(self, child_box)

\* layout_box.get_inline_container().children.push(child_box)
PushInlineChild(self, child_box) ==
    LET r == GetInlineContainer(self) IN
    IF r.container = "self" THEN Push(r.self, child_box)
    ELSE LET n == Len(r.self.children) IN
         [r.self EXCEPT !.children[n] = Push(@, child_box)]

\* Fault: missing computed values are tolerated.
Expect_Tolerant(cv) == TRUE

\* .expect("layout called on a node that has not yet acquired computed values")
Expect(cv) == cv # "Unset"

\* Fault: Display::None generates a Block box.
MatchDisplay_NoneAsBlock(node, display) ==
    CASE display = "Inline" -> <<New("Inline", node)>>
      [] display \in {"Block", "None"} -> <<New("Block", node)>>
      [] OTHER -> <<>>

\* Fault: the box kinds are swapped.
MatchDisplay_Swapped(node, display) ==
    CASE display = "Block" -> <<New("Inline", node)>>
      [] display = "Inline" -> <<New("Block", node)>>
      [] OTHER -> <<>>

\* match computed_values.display at the top of build_layout_tree: the new
\* box in a one-element sequence (Some), or <<>> for the early return None.
MatchDisplay(node, display) ==
    CASE display = "Block" -> <<New("Block", node)>>
      [] display = "Inline" -> <<New("Inline", node)>>
      [] OTHER -> <<>>

\* match child_computed_values.display in the loop: which arm is taken.
ChildArm(display) ==
    CASE display = "Block" -> "push"
      [] display = "Inline" -> "inline_container"
      [] OTHER -> "skip"

Frame(node, box) == [node |-> node, layout_box |-> box, next |-> 1]

Top == stack[Len(stack)]
Pop == SubSeq(stack, 1, Len(stack) - 1)
AtChild == Top.next <= Len(Children(Top.node))
CurrentChild == Children(Top.node)[Top.next]

----------------------------------------------------------------------------
\* Cloning, layout and paint.

RECURSIVE Clone(_)
\* #[derive(Clone)] on LayoutBox: a field-by-field deep copy; the NodeRef
\* inside the box type is a handle and is copied as a handle.
Clone(b) ==
    [box_type |-> b.box_type, node |-> b.node,
     dimensions |-> [content |-> b.dimensions.content,
                     padding |-> b.dimensions.padding,
                     border |-> b.dimensions.border,
                     margin |-> b.dimensions.margin],
     children |-> [i \in 1..Len(b.children) |-> Clone(b.children[i])]]

RECURSIVE GlobalLayout(_, _, _, _)
\* global_layout(&mut tree, width, height, scale): the geometry engine fills
\* in the Dimensions of every box of the tree it is given and of no other.
GlobalLayout(b, width, height, scale_factor) ==
    [b EXCEPT !.dimensions.content =
                  [x |-> 0, y |-> 0,
                   width |-> width * scale_factor,
                   height |-> height * scale_factor],
              !.children =
                  [i \in 1..Len(b.children) |->
                      GlobalLayout(b.children[i], width, height, scale_factor)]]

\* fn paint(mut layout_tree, ...): lays out the tree it owns; the window's
\* inner width is passed as both width and height.
Paint(tree, width, scale_factor) == GlobalLayout(tree, width, width, scale_factor)

\* Fault: paint lays out clean_layout_tree itself instead of a clone.
PaintClean_Aliased(clean, width, scale_factor) ==
    [clean_layout_tree |-> Paint(clean, width, scale_factor),
     layout_tree |-> Paint(clean, width, scale_factor)]

\* paint(clean_layout_tree.clone(), ...): what the call leaves in
\* clean_layout_tree and in paint's own layout_tree.
PaintClean(clean, width, scale_factor) ==
    [clean_layout_tree |-> clean,
     layout_tree |-> Paint(Clone(clean), width, scale_factor)]

----------------------------------------------------------------------------
Init ==
    /\ parent \in TreeShapes
    /\ computed \in [Nodes -> ComputedValues]
    /\ pc = "start"
    /\ stack = <<>>
    /\ result = <<>>
    /\ clean_layout_tree = <<>>
    /\ layout_tree = <<>>
    /\ scale = 0
    /\ inner_width = 0
    /\ control_flow = "Poll"

\* build_layout_tree(styled_dom): the outermost invocation up to the loop.
BuildRoot ==
    /\ pc = "start"
    /\ IF ~Expect(computed[Root])
       THEN /\ pc' = "panic_expect"
            /\ UNCHANGED <<stack, result>>
       ELSE LET b == MatchDisplay(Root, computed[Root]) IN
            IF b = <<>>
            THEN /\ pc' = "returned"
                 /\ result' = <<>>
                 /\ UNCHANGED stack
            ELSE /\ pc' = "building"
                 /\ stack' = <<Frame(Root, b[1])>>
                 /\ UNCHANGED result
    /\ UNCHANGED <<dom, loop>>

\* Loop head: the child has no computed values; the expect panics and the
\* unwinding drops every frame.
ChildUnset ==
    /\ pc = "building" /\ AtChild
    /\ ~Expect(computed[CurrentChild])
    /\ pc' = "panic_expect"
    /\ stack' = <<>>
    /\ UNCHANGED <<result, dom, loop>>

\* Display::None => {}
ChildSkip ==
    /\ pc = "building" /\ AtChild
    /\ Expect(computed[CurrentChild])
    /\ ChildArm(computed[CurrentChild]) = "skip"
    /\ stack' = [stack EXCEPT ![Len(stack)].next = @ + 1]
    /\ UNCHANGED <<pc, result, dom, loop>>

\* Display::Block / Display::Inline arms: build_layout_tree(child.clone()).
\* The callee evaluates its own expect and match; a None result falls into
\* the `None => {}` arm of the caller.
ChildCall ==
    /\ pc = "building" /\ AtChild
    /\ Expect(computed[CurrentChild])
    /\ ChildArm(computed[CurrentChild]) # "skip"
    /\ LET b == MatchDisplay(CurrentChild, computed[CurrentChild]) IN
       IF b = <<>>
       THEN stack' = [stack EXCEPT ![Len(stack)].next = @ + 1]
       ELSE stack' = Append(stack, Frame(CurrentChild, b[1]))
    /\ UNCHANGED <<pc, result, dom, loop>>

\* return Some(layout_box) of a nested invocation whose caller is in the
\* Display::Block arm.
ReturnBlock ==
    /\ pc = "building" /\ ~AtChild /\ Len(stack) > 1
    /\ ChildArm(computed[Top.node]) = "push"
    /\ stack' = [Pop EXCEPT ![Len(stack) - 1] =
                    [@ EXCEPT !.layout_box = PushBlockChild(@, Top.layout_box),
                              !.next = @ + 1]]
    /\ UNCHANGED <<pc, result, dom, loop>>

\* return Some(layout_box) of a nested invocation whose caller is in the
\* Display::Inline arm.
ReturnInline ==
    /\ pc = "building" /\ ~AtChild /\ Len(stack) > 1
    /\ ChildArm(computed[Top.node]) = "inline_container"
    /\ stack' = [Pop EXCEPT ![Len(stack) - 1] =
                    [@ EXCEPT !.layout_box = PushInlineChild(@, Top.layout_box),
                              !.next = @ + 1]]
    /\ UNCHANGED <<pc, result, dom, loop>>

\* return Some(layout_box) of the outermost invocation.
ReturnRoot ==
    /\ pc = "building" /\ ~AtChild /\ Len(stack) = 1
    /\ result' = <<Top.layout_box>>
    /\ stack' = <<>>
    /\ pc' = "returned"
    /\ UNCHANGED <<dom, loop>>

\* let clean_layout_tree = build_layout_tree(styled_dom).unwrap(); the scale
\* factor comes from the CLI or the window, then the first paint.
StartEventLoop ==
    /\ pc = "returned"
    /\ IF result = <<>>
       THEN /\ pc' = "panic_unwrap"
            /\ UNCHANGED loop
       ELSE /\ pc' = "running"
            /\ \E s \in Scales, w \in Widths :
                 LET r == PaintClean(result[1], w, s) IN
                 /\ clean_layout_tree' = <<r.clean_layout_tree>>
                 /\ layout_tree' = <<r.layout_tree>>
                 /\ scale' = s
                 /\ inner_width' = w
            /\ UNCHANGED control_flow
    /\ UNCHANGED <<stack, result, dom>>

\* WindowEvent::Resized(physical_size)
Resized ==
    /\ pc = "running"
    /\ \E w \in Widths :
         LET r == PaintClean(clean_layout_tree[1], w, scale) IN
         /\ inner_width' = w
         /\ clean_layout_tree' = <<r.clean_layout_tree>>
         /\ layout_tree' = <<r.layout_tree>>
    /\ control_flow' = "Wait"
    /\ UNCHANGED <<pc, stack, result, dom, scale>>

\* WindowEvent::ScaleFactorChanged { scale_factor, new_inner_size }
ScaleFactorChanged ==
    /\ pc = "running"
    /\ \E s \in Scales, w \in Widths :
         LET r == PaintClean(clean_layout_tree[1], w, s) IN
         /\ scale' = s
         /\ inner_width' = w
         /\ clean_layout_tree' = <<r.clean_layout_tree>>
         /\ layout_tree' = <<r.layout_tree>>
    /\ control_flow' = "Wait"
    /\ UNCHANGED <<pc, stack, result, dom>>

\* WindowEvent::CloseRequested => *control_flow = ControlFlow::Exit
CloseRequested ==
    /\ pc = "running"
    /\ control_flow' = "Exit"
    /\ pc' = "exited"
    /\ UNCHANGED <<stack, result, dom, clean_layout_tree, layout_tree, scale, inner_width>>

\* Any other event: only *control_flow = ControlFlow::Wait.
OtherEvent ==
    /\ pc = "running"
    /\ control_flow' = "Wait"
    /\ UNCHANGED <<pc, stack, result, dom, clean_layout_tree, layout_tree, scale, inner_width>>

\* One build_layout_tree(styled_dom) call over any DOM, styled or not.
Next ==
    \/ BuildRoot
    \/ ChildUnset
    \/ ChildSkip
    \/ ChildCall
    \/ ReturnBlock
    \/ ReturnInline
    \/ ReturnRoot

Spec == Init /\ [][Next]_vars

\* main: apply_styles(dom.clone(), ...) has run over the whole DOM before
\* run_event_loop is entered, so every node has computed values there.
InitStyled ==
    /\ Init
    /\ \A n \in Nodes : Expect(computed[n])

\* run_event_loop: the build, then the event handler.
NextLoop ==
    \/ BuildRoot
    \/ ChildSkip
    \/ ChildCall
    \/ ReturnBlock
    \/ ReturnInline
    \/ ReturnRoot
    \/ StartEventLoop
    \/ OtherEvent
    \/ Resized
    \/ ScaleFactorChanged
    \/ CloseRequested

LoopSpec == InitStyled /\ [][NextLoop]_vars
----------------------------------------------------------------------------
\* Reading a box tree.

RECURSIVE Flatten(_)
RECURSIVE FlattenAll(_)
\* Every box of the tree rooted at b, in document order.
Flatten(b) == <<b>> \o FlattenAll(b.children)
FlattenAll(bs) == IF bs = <<>> THEN <<>> ELSE Flatten(Head(bs)) \o FlattenAll(Tail(bs))

Range(f) == {f[i] : i \in DOMAIN f}

\* The boxes of the returned tree (none when the build returned None).
OutBoxes == IF result = <<>> THEN <<>> ELSE Flatten(result[1])
IsNodeBox(b) == b.box_type # "Anonymous"
NodeBoxes == SelectSeq(OutBoxes, IsNodeBox)

\* The boxes of every tree under construction and of the returned tree.
LiveBoxes ==
    Range(OutBoxes) \cup UNION {Range(Flatten(stack[i].layout_box)) : i \in DOMAIN stack}

Descendants(n) == {m \in Nodes : n \in Ancestors(parent, m)}
AllStyled == \A n \in Nodes : computed[n] # "Unset"
HasBox(n) == \E i \in DOMAIN NodeBoxes : NodeBoxes[i].node = n

\* n has display None or lies below a node that has.
Elided(n) ==
    \/ computed[n] = "None"
    \/ \E a \in Ancestors(parent, n) : computed[a] = "None"

\* The build reads n's computed values: every proper ancestor generates a box.
Visited(n) == \A a \in Ancestors(parent, n) : computed[a] \in {"Block", "Inline"}

\* Kind and node of a box, and of the box a child node is expected to get.
Tag(b) == [kind |-> b.box_type, node |-> b.node]
Tags(bs) == [i \in DOMAIN bs |-> Tag(bs[i])]
NodeTag(n) == [kind |-> computed[n], node |-> n]
Generates(n) == computed[n] # "None"
\* The children of n that generate a box, in document order.
Generating(n) == SelectSeq(Children(n), Generates)
NodeTags(ns) == [i \in DOMAIN ns |-> NodeTag(ns[i])]

RECURSIVE Unwrap(_)
\* The direct children of a box with every Anonymous child replaced by its
\* own children.
Unwrap(bs) ==
    IF bs = <<>> THEN <<>>
    ELSE (IF Head(bs).box_type = "Anonymous" THEN Tags(Head(bs).children)
          ELSE <<Tag(Head(bs))>>) \o Unwrap(Tail(bs))

Displays(ns) == [i \in DOMAIN ns |-> computed[ns[i]]]
\* The number of maximal runs of consecutive "Inline" entries of ds.
InlineRuns(ds) ==
    Cardinality({i \in DOMAIN ds : ds[i] = "Inline" /\ (i = 1 \/ ds[i - 1] # "Inline")})
AnonymousCount(bs) == Cardinality({i \in DOMAIN bs : bs[i].box_type = "Anonymous"})

----------------------------------------------------------------------------
\* C1: over a fully styled DOM the build returns no box exactly when the
\* node's own display is None, and a display:None node and all of its
\* descendants have no box in the output, whatever the descendants' display.
C1_NoneElided ==
    (pc = "returned" /\ AllStyled) =>
        /\ (result = <<>>) <=> (computed[Root] = "None")
        /\ \A n \in Nodes : computed[n] = "None" =>
               \A m \in {n} \cup Descendants(n) : ~HasBox(m)

C1_Witness ==
    /\ pc = "returned" /\ AllStyled /\ result # <<>>
    /\ \E n \in Nodes : /\ computed[n] = "None"
                        /\ \E m \in Descendants(n) : computed[m] = "Block"
                        /\ \E k \in Nodes \ {Root} : HasBox(k)

\* C2: the Block/Inline boxes of the output correspond one to one to the
\* nodes that are neither display:None nor below a display:None node, and
\* each box has the kind of its node's display.
C2_BoxesMatchNodes ==
    pc = "returned" =>
        /\ \A i \in DOMAIN NodeBoxes :
               /\ NodeBoxes[i].node \in Nodes
               /\ ~Elided(NodeBoxes[i].node)
               /\ NodeBoxes[i].box_type = computed[NodeBoxes[i].node]
        /\ \A i, j \in DOMAIN NodeBoxes :
               NodeBoxes[i].node = NodeBoxes[j].node => i = j
        /\ Len(NodeBoxes) = Cardinality({n \in Nodes : ~Elided(n)})

C2_Witness ==
    /\ pc = "returned"
    /\ Len(NodeBoxes) = 3
    /\ \E i, j \in DOMAIN NodeBoxes :
           NodeBoxes[i].box_type = "Block" /\ NodeBoxes[j].box_type = "Inline"
    /\ \E n \in Nodes : Elided(n) /\ computed[n] # "None"

\* What C3 says of one Block box b, given the child displays ds among which
\* the inline runs are counted.
BlockChildrenGrouped(b, ds) ==
    LET kids == b.children IN
    /\ \A i \in DOMAIN kids : kids[i].box_type \in {"Block", "Anonymous"}
    /\ \A i \in DOMAIN kids : kids[i].box_type = "Anonymous" =>
           /\ kids[i].children # <<>>
           /\ \A j \in DOMAIN kids[i].children : kids[i].children[j].box_type = "Inline"
    /\ \A i \in DOMAIN kids : i > 1 =>
           ~(kids[i - 1].box_type = "Anonymous" /\ kids[i].box_type = "Anonymous")
    /\ Unwrap(kids) = NodeTags(Generating(b.node))
    /\ AnonymousCount(kids) = InlineRuns(ds)
    /\ Displays(Children(b.node)) = <<"Inline", "Inline", "Block", "Inline">> =>
           /\ Len(kids) = 3
           /\ Tags(kids[1].children) = NodeTags(SubSeq(Children(b.node), 1, 2))
           /\ Tag(kids[2]) = NodeTag(Children(b.node)[3])
           /\ Tags(kids[3].children) = NodeTags(SubSeq(Children(b.node), 4, 4))

\* C3 as stated: the children of a Block box are one Block box per
\* block-level child and one Anonymous box per maximal run of consecutive
\* inline-level children of the node, in document order.
C3_RunsOfChildren ==
    pc = "returned" =>
        \A i \in DOMAIN OutBoxes : OutBoxes[i].box_type = "Block" =>
            BlockChildrenGrouped(OutBoxes[i], Displays(Children(OutBoxes[i].node)))

\* C3 amended: the runs are the maximal runs among the children that
\* generate a box; a display:None child between two inline-level children
\* does not end their run.
C3_RunsOfGeneratingChildren ==
    pc = "returned" =>
        \A i \in DOMAIN OutBoxes : OutBoxes[i].box_type = "Block" =>
            BlockChildrenGrouped(OutBoxes[i], Displays(Generating(OutBoxes[i].node)))

C3_Witness ==
    /\ pc = "returned" /\ result # <<>>
    /\ computed[Root] = "Block"
    /\ Displays(Children(Root)) = <<"Inline", "Inline", "Block", "Inline">>
    /\ Len(result[1].children) = 3

\* C4: every Anonymous box of the output has a Block parent and the root is
\* not Anonymous.
C4_AnonymousUnderBlock ==
    (pc = "returned" /\ result # <<>>) =>
        /\ result[1].box_type # "Anonymous"
        /\ \A i \in DOMAIN OutBoxes :
               (\E j \in DOMAIN OutBoxes[i].children :
                    OutBoxes[i].children[j].box_type = "Anonymous")
               => OutBoxes[i].box_type = "Block"

C4_Witness ==
    /\ pc = "returned"
    /\ \E i, j \in DOMAIN OutBoxes :
           /\ OutBoxes[i].box_type = "Anonymous"
           /\ OutBoxes[j].box_type = "Inline"
           /\ OutBoxes[j].children # <<>>

\* C5 as stated: no Inline box has an Inline or an Anonymous direct child.
C5_InlineHoldsNoInline ==
    pc = "returned" =>
        \A i \in DOMAIN OutBoxes : OutBoxes[i].box_type = "Inline" =>
            \A j \in DOMAIN OutBoxes[i].children :
                OutBoxes[i].children[j].box_type \notin {"Inline", "Anonymous"}

\* C5 amended: an Inline box holds the Inline boxes of its inline-level
\* children itself; only Block boxes hold Anonymous children, and a Block
\* box never holds an Inline box directly.
C5_InlineHeldByInlineOrAnonymous ==
    pc = "returned" =>
        \A i \in DOMAIN OutBoxes :
            \A j \in DOMAIN OutBoxes[i].children :
                LET p == OutBoxes[i].box_type
                    c == OutBoxes[i].children[j].box_type
                IN /\ p = "Inline" => c # "Anonymous"
                   /\ p = "Block" => c # "Inline"
                   /\ c = "Inline" => p \in {"Inline", "Anonymous"}

C5_Witness ==
    /\ pc = "returned"
    /\ \E i \in DOMAIN OutBoxes :
           /\ OutBoxes[i].box_type = "Inline"
           /\ \E j \in DOMAIN OutBoxes[i].children :
                  OutBoxes[i].children[j].box_type = "Inline"
    /\ \E i \in DOMAIN OutBoxes : OutBoxes[i].box_type = "Anonymous"

\* C6 as stated: when any node reachable from the root lacks computed
\* values the build never returns.
C6_AnyUnsetPanics ==
    (\E n \in Nodes : computed[n] = "Unset") => pc # "returned"

\* C6 amended: the build panics, with nothing returned, exactly when a node
\* it reads lacks computed values: the root, or a node all of whose
\* ancestors generate a box.  A node below a display:None node is never read.
C6_VisitedUnsetPanics ==
    /\ pc = "returned" => \A n \in Nodes : Visited(n) => computed[n] # "Unset"
    /\ pc = "panic_expect" =>
           /\ \E n \in Nodes : Visited(n) /\ computed[n] = "Unset"
           /\ result = <<>> /\ stack = <<>>

C6_Witness ==
    /\ pc = "panic_expect"
    /\ computed[Root] = "Block"
    /\ \E n \in Nodes : /\ computed[n] = "Unset"
                        /\ Ancestors(parent, n) # {Root}
                        /\ Visited(n)

\* C7: no Anonymous box is ever empty or holds anything but Inline boxes,
\* during the build or in its result, and a Block node without a
\* box-generating child gets a Block box without children.
C7_NoEmptyAnonymous ==
    /\ \A b \in LiveBoxes : b.box_type = "Anonymous" =>
           /\ b.children # <<>>
           /\ \A j \in DOMAIN b.children : b.children[j].box_type = "Inline"
    /\ pc = "returned" =>
           \A i \in DOMAIN OutBoxes :
               (OutBoxes[i].box_type = "Block" /\ Generating(OutBoxes[i].node) = <<>>)
               => OutBoxes[i].children = <<>>

C7_Witness ==
    /\ pc = "returned"
    /\ \E i \in DOMAIN OutBoxes :
           /\ OutBoxes[i].box_type = "Block"
           /\ Children(OutBoxes[i].node) # <<>>
           /\ Generating(OutBoxes[i].node) = <<>>
    /\ \E i \in DOMAIN OutBoxes : OutBoxes[i].box_type = "Anonymous"

\* C10: an Inline box holds, in document order, exactly the boxes of its
\* node's box-generating children, a Block box for a display:Block child
\* included, with no Anonymous box in between.
C10_BlockDirectlyUnderInline ==
    pc = "returned" =>
        \A i \in DOMAIN OutBoxes : OutBoxes[i].box_type = "Inline" =>
            Tags(OutBoxes[i].children) = NodeTags(Generating(OutBoxes[i].node))

C10_Witness ==
    /\ pc = "returned"
    /\ \E i \in DOMAIN OutBoxes :
           /\ OutBoxes[i].box_type = "Inline"
           /\ Len(OutBoxes[i].children) >= 2
           /\ OutBoxes[i].children[1].box_type = "Inline"
           /\ OutBoxes[i].children[2].box_type = "Block"

RECURSIVE ZeroDimensions(_)
\* Every box of the tree has default Dimensions.
ZeroDimensions(b) ==
    /\ b.dimensions = DefaultDimensions
    /\ \A i \in DOMAIN b.children : ZeroDimensions(b.children[i])

RECURSIVE LaidOut(_)
\* Every box of the tree has had its content size set.
LaidOut(b) ==
    /\ b.dimensions.content.width > 0
    /\ \A i \in DOMAIN b.children : LaidOut(b.children[i])

RECURSIVE Shape(_)
\* A tree without its Dimensions.
Shape(b) ==
    [box_type |-> b.box_type, node |-> b.node,
     children |-> [i \in DOMAIN b.children |-> Shape(b.children[i])]]

\* C8: whatever Resized and ScaleFactorChanged events were handled, each
\* laying out its own clone, clean_layout_tree is still the tree the build
\* returned, every box of it with default Dimensions, while the clone last
\* painted has the same shape and its own, non-zero Dimensions.
C8_CleanTreeUntouched ==
    pc \in {"running", "exited"} =>
        /\ clean_layout_tree = result
        /\ ZeroDimensions(clean_layout_tree[1])
        /\ Shape(layout_tree[1]) = Shape(clean_layout_tree[1])
        /\ LaidOut(layout_tree[1])

C8_Witness ==
    /\ pc = "running" /\ control_flow = "Wait"
    /\ scale = MaxScale
    /\ layout_tree[1].dimensions.content.width = inner_width * MaxScale
    /\ Len(clean_layout_tree[1].children) >= 2
    /\ ZeroDimensions(clean_layout_tree[1])

\* The step about to be taken returns an Inline box into a Block box: the
\* caller is in the Display::Inline arm with a Block layout_box.
InlineIntoBlock ==
    /\ pc = "building" /\ ~AtChild /\ Len(stack) > 1
    /\ computed[Top.node] = "Inline"
    /\ stack[Len(stack) - 1].layout_box.box_type = "Block"

\* That step appended a new Anonymous box holding just the returned box.
OpenedAnonymous ==
    LET old == stack[Len(stack) - 1].layout_box.children
        new == stack'[Len(stack')].layout_box.children
    IN /\ Len(new) = Len(old) + 1
       /\ SubSeq(new, 1, Len(old)) = old
       /\ new[Len(new)] = Push(New("Anonymous", 0), Top.layout_box)

\* That step appended the returned box to the trailing Anonymous box.
ReusedAnonymous ==
    LET old == stack[Len(stack) - 1].layout_box.children
        new == stack'[Len(stack')].layout_box.children
    IN /\ Len(new) = Len(old) /\ Len(old) > 0
       /\ old[Len(old)].box_type = "Anonymous"
       /\ new = [old EXCEPT ![Len(old)] = Push(@, Top.layout_box)]

\* The sibling just before the returning child is block-level, or there is
\* no sibling before it.
PreviousSiblingBlock ==
    LET k == stack[Len(stack) - 1].next
        ch == Children(stack[Len(stack) - 1].node)
    IN k = 1 \/ computed[ch[k - 1]] = "Block"

\* The same, looking only at the siblings that generate a box.
PreviousGeneratingSiblingBlock ==
    LET k == stack[Len(stack) - 1].next
        earlier == SelectSeq(SubSeq(Children(stack[Len(stack) - 1].node), 1, k - 1),
                             Generates)
    IN earlier = <<>> \/ computed[earlier[Len(earlier)]] = "Block"

\* C9 as stated: appending an inline-level child to a Block box opens a new
\* Anonymous box exactly when the child's previous sibling is block-level or
\* the child is the first; otherwise the trailing Anonymous box takes it.
C9_OpensAfterBlockSibling ==
    [][InlineIntoBlock =>
          \/ PreviousSiblingBlock /\ OpenedAnonymous
          \/ ~PreviousSiblingBlock /\ ReusedAnonymous]_vars

\* C9 amended: display:None siblings do not count: a new Anonymous box is
\* opened exactly when the nearest previous sibling that generates a box is
\* block-level or there is none; otherwise the trailing Anonymous box takes
\* the child.
C9_OpensAfterGeneratingBlockSibling ==
    [][InlineIntoBlock =>
          \/ PreviousGeneratingSiblingBlock /\ OpenedAnonymous
          \/ ~PreviousGeneratingSiblingBlock /\ ReusedAnonymous]_vars

C9_Witness ==
    /\ pc = "building"
    /\ \E i \in DOMAIN stack :
           LET kids == stack[i].layout_box.children IN
           /\ stack[i].layout_box.box_type = "Block"
           /\ Len(kids) = 3
           /\ kids[1].box_type = "Anonymous" /\ Len(kids[1].children) = 2
           /\ kids[2].box_type = "Block"
           /\ kids[3].box_type = "Anonymous"
====
